---- MODULE Spec2Model ----
(***************************************************************************)
(* Template synchronisation of margo (src/src/config.rs): the bundled      *)
(* template catalog, the templates.manifest codec, refresh_templates and   *)
(* ensure_templates_initialized, run against a model of the configuration  *)
(* directory ~/.config/margo.                                              *)
(***************************************************************************)
EXTENDS Integers, Sequences, FiniteSets, TLC

VARIABLES
    build,      \* the release of the running binary (CARGO_PKG_VERSION and bundled texts)
    fs,         \* the configuration directory on disk
    pc,         \* "idle": no call in progress; "done": a call has returned
    call,       \* the call that returned: operation and options
    ret,        \* what the call returned and what it did on the way
    pre,        \* the configuration directory as it was when the call started
    events,     \* number of upgrades, user changes and failed operations so far
    running     \* the invocations in progress when two run at once, else <<>>

vars == <<build, fs, pc, call, ret, pre, events, running>>

----------------------------------------------------------------------------
(* Bounds of the exploration.                                              *)

\* what happens to an installation over a behaviour, besides the calls: the
\* upgrades to a newer release, the changes the user makes to the directory
\* and the file-system operations that fail, taken together
MaxEvents == 2

----------------------------------------------------------------------------
(* Option values: None is the empty sequence, Some(x) the one-element one. *)

None == <<>>
Some(x) == <<x>>
IsSome(o) == o # <<>>
Unwrap(o) == o[1]

----------------------------------------------------------------------------
(* The catalog.                                                            *)

TemplateKind == <<"baselines", "outcomes">>

\* TemplateKind::as_str: the token of a kind in the manifest file
as_str(kind) == IF kind = TemplateKind[1] THEN "baselines" ELSE "outcomes"

\* TemplateKind::from_str
from_str(kind) ==
    IF kind = "baselines" THEN Some("baselines")
    ELSE IF kind = "outcomes" THEN Some("outcomes")
    ELSE None

\* kind and name of every bundled asset, in the order of shipped_templates()
ShippedNames ==
    << [kind |-> "baselines", name |-> "default"],
       [kind |-> "baselines", name |-> "minimal"],
       [kind |-> "baselines", name |-> "extended"],
       [kind |-> "outcomes",  name |-> "wellbeing"],
       [kind |-> "outcomes",  name |-> "health"] >>

NAssets == Len(ShippedNames)
AssetIds == 1..NAssets

\* Release history: the text of asset i is revised in build b (b >= 2) when
\* i + b is even, so every upgrade revises some assets and keeps the others.
RECURSIVE Revision(_, _)
Revision(i, b) ==
    IF b <= 1 THEN 1
    ELSE Revision(i, b - 1) + (IF (i + b) % 2 = 0 THEN 1 ELSE 0)

\* A text is identified by where it comes from: a bundled text of some
\* revision, a text typed by the user, or the remains of an interrupted write.
BundledText(i, b) == [src |-> "shipped", id |-> ShippedNames[i].name, rev |-> Revision(i, b)]
UserText == [src |-> "user", id |-> "-", rev |-> 0]
TornText == [src |-> "torn", id |-> "-", rev |-> 0]
NoText == [src |-> "none", id |-> "-", rev |-> 0]

\* shipped_templates() of build b
shipped_templates(b) ==
    [i \in AssetIds |->
        [kind |-> ShippedNames[i].kind, name |-> ShippedNames[i].name,
         content |-> BundledText(i, b)]]

\* hash_content: SHA-256 in lower-case hex; different texts get different digests
hash_content(content) == [sha256 |-> content]

\* shipped_manifest() of build b; the version string of build b is written b
shipped_manifest(b) ==
    [version |-> b,
     entries |-> [i \in AssetIds |->
        [kind |-> shipped_templates(b)[i].kind,
         name |-> shipped_templates(b)[i].name,
         hash |-> hash_content(shipped_templates(b)[i].content)]]]

----------------------------------------------------------------------------
(* The configuration directory.                                            *)

\* a path the engine reports: root is "" for {config_dir}/{kind}/{name}.toml
\* and "templates.new" for {config_dir}/templates.new/{kind}/{name}.toml
DestPath(asset) == [root |-> "", kind |-> asset.kind, name |-> asset.name]
templates_sidecar_path(asset) == [root |-> "templates.new", kind |-> asset.kind, name |-> asset.name]

\* what is found at a path
Absent == [st |-> "absent", c |-> NoText]
TextFile(c) == [st |-> "text", c |-> c]       \* a regular file holding UTF-8 text
BinaryFile == [st |-> "binary", c |-> NoText] \* a regular file read_to_string rejects
DirEntry == [st |-> "dir", c |-> NoText]      \* a directory standing at the path

\* faulty variant: a path counts as existing only if it can be read as text
ExistsAsText(f) == f.st = "text"

\* Path::exists
Exists(f) == f.st # "absent"
\* fs::read_to_string(..).ok()
read_to_string(f) == IF f.st = "text" THEN Some(f.c) ELSE None

\* other entries a user may keep in a kind directory
ExtraEntries == {"custom.toml", "notes.txt", "examples"}

\* the manifest file: absent, or a sequence of lines
EmptyVersion == 0
VersionLine(v) == [t |-> "version", ver |-> v, kind |-> "", name |-> "", hash |-> hash_content(NoText)]
EntryLine(k, n, h) == [t |-> "entry", ver |-> EmptyVersion, kind |-> k, name |-> n, hash |-> h]
\* a line that is not blank, not a comment, not version=..., and has fewer than three fields
JunkLine == [t |-> "junk", ver |-> EmptyVersion, kind |-> "", name |-> "", hash |-> hash_content(NoText)]
\* a blank line or a # comment
CommentLine == [t |-> "comment", ver |-> EmptyVersion, kind |-> "", name |-> "", hash |-> hash_content(NoText)]

NoManifestFile == [st |-> "absent", lines |-> <<>>]
ManifestFile(lines) == [st |-> "text", lines |-> lines]
\* a manifest file read_to_string rejects
BinaryManifestFile == [st |-> "binary", lines |-> <<>>]

\* a configuration directory that does not exist yet
EmptyFs ==
    [dirs |-> [k \in {"baselines", "outcomes"} |-> FALSE],
     files |-> [i \in AssetIds |-> Absent],
     extra |-> [k \in {"baselines", "outcomes"} |-> {}],
     sdirs |-> [k \in {"baselines", "outcomes"} |-> FALSE],
     side |-> [i \in AssetIds |-> Absent],
     manifest |-> NoManifestFile]

----------------------------------------------------------------------------
(* The manifest codec.                                                     *)

\* faulty variant: the kind is written in the singular, a token from_str rejects
ManifestLinesSingular(manifest) ==
    <<VersionLine(manifest.version)>> \o
    [i \in 1..Len(manifest.entries) |->
        EntryLine(IF manifest.entries[i].kind = TemplateKind[1] THEN "baseline" ELSE "outcome",
                  manifest.entries[i].name, manifest.entries[i].hash)]

\* the text save_manifest builds
ManifestLines(manifest) ==
    <<VersionLine(manifest.version)>> \o
    [i \in 1..Len(manifest.entries) |->
        EntryLine(as_str(manifest.entries[i].kind), manifest.entries[i].name,
                  manifest.entries[i].hash)]

\* the loop of load_manifest over the lines of the file
RECURSIVE ParseLines(_, _, _)
ParseLines(lines, version, entries) ==
    IF lines = <<>>
    THEN IF version = EmptyVersion THEN None
         ELSE Some([version |-> version, entries |-> entries])
    ELSE LET line == Head(lines) IN
         IF line.t = "comment" THEN ParseLines(Tail(lines), version, entries)
         ELSE IF line.t = "version" THEN ParseLines(Tail(lines), line.ver, entries)
         ELSE IF line.t = "junk" THEN None
         ELSE IF ~IsSome(from_str(line.kind)) THEN None
         ELSE ParseLines(Tail(lines), version,
                Append(entries, [kind |-> Unwrap(from_str(line.kind)),
                                 name |-> line.name, hash |-> line.hash]))

\* faulty variant: lines that are not key:value:hash are dropped before parsing
IsFieldLine(line) == line.t # "junk"
load_manifestSkippingJunk(file) ==
    IF file.st # "text" THEN None
    ELSE ParseLines(SelectSeq(file.lines, IsFieldLine), EmptyVersion, <<>>)

\* faulty variant: a manifest of another version than the running build's is rejected
load_manifestOfThisBuild(file) ==
    IF file.st # "text" THEN None
    ELSE LET manifest == ParseLines(file.lines, EmptyVersion, <<>>)
         IN IF IsSome(manifest) /\ Unwrap(manifest).version # shipped_manifest(build).version
            THEN None
            ELSE manifest

load_manifest(file) ==
    IF file.st # "text" THEN None ELSE ParseLines(file.lines, EmptyVersion, <<>>)

\* TemplateManifest::find_hash: the hash of the first entry for (kind, name)
find_hash(manifest, kind, name) ==
    LET hits == {j \in 1..Len(manifest.entries) :
                    manifest.entries[j].kind = kind /\ manifest.entries[j].name = name}
    IN IF hits = {} THEN None
       ELSE Some(manifest.entries[CHOOSE j \in hits : \A k \in hits : j <= k].hash)

----------------------------------------------------------------------------
(* File-system operations of one call.  A call threads a record st through *)
(* its steps: fs is the directory, report the five buckets, wlog the       *)
(* modifications made so far in order, nops the number of modifying        *)
(* operations attempted, failed the operation that returned an error.      *)
(* inj = [at, torn] makes the operation number at fail (0: none); torn     *)
(* says whether the failing write had already truncated its target.        *)

EmptyReport ==
    [created |-> <<>>, updated |-> <<>>, unchanged |-> <<>>,
     skipped_modified |-> <<>>, sidecar |-> <<>>]

Start(disk) ==
    [fs |-> disk, report |-> EmptyReport, wlog |-> <<>>, nops |-> 0, failed |-> "none"]

NoFault == [at |-> 0, torn |-> FALSE]
Hit(st, inj) == inj.at = st.nops + 1
Failed(st) == st.failed # "none"

KindDirPath(tree, kind) ==
    [root |-> IF tree = "sdirs" THEN "templates.new" ELSE "", kind |-> kind, name |-> ""]
templates_manifest_path == [root |-> "", kind |-> "", name |-> "templates.manifest"]

\* fs::create_dir_all on a kind directory (tree "dirs") or on a sidecar
\* directory (tree "sdirs"); a directory that exists is left as it is
create_dir_all(st, inj, tree, kind) ==
    IF Hit(st, inj)
    THEN [st EXCEPT !.nops = @ + 1, !.failed = "create_dir"]
    ELSE IF st.fs[tree][kind]
    THEN [st EXCEPT !.nops = @ + 1]
    ELSE [st EXCEPT !.nops = @ + 1, !.fs[tree][kind] = TRUE,
                    !.wlog = Append(@, [op |-> "create_dir", path |-> KindDirPath(tree, kind)])]

\* fs::write of a template text to a destination (tree "files") or to a
\* sidecar file (tree "side"): it fails on a directory, and a failing write
\* leaves the target as it was or truncated
fs_write(st, inj, tree, i, asset, content) ==
    LET path == IF tree = "side" THEN templates_sidecar_path(asset) ELSE DestPath(asset)
        tag == IF tree = "side" THEN "write_sidecar" ELSE "write_dest"
    IN IF st.fs[tree][i].st = "dir"
       THEN [st EXCEPT !.nops = @ + 1, !.failed = tag]
       ELSE IF Hit(st, inj)
       THEN IF inj.torn
            THEN [st EXCEPT !.nops = @ + 1, !.failed = tag,
                            !.fs[tree][i] = TextFile(TornText),
                            !.wlog = Append(@, [op |-> "write", path |-> path])]
            ELSE [st EXCEPT !.nops = @ + 1, !.failed = tag]
       ELSE [st EXCEPT !.nops = @ + 1, !.fs[tree][i] = TextFile(content),
                       !.wlog = Append(@, [op |-> "write", path |-> path])]

\* save_manifest: one fs::write of the whole text; a failing write leaves the
\* old file or a file cut short
save_manifest(st, inj, manifest) ==
    IF Hit(st, inj)
    THEN IF inj.torn
         THEN [st EXCEPT !.nops = @ + 1, !.failed = "write_manifest",
                         !.fs.manifest = ManifestFile(SubSeq(ManifestLines(manifest), 1,
                                                Len(ManifestLines(manifest)) \div 2)),
                         !.wlog = Append(@, [op |-> "write", path |-> templates_manifest_path])]
         ELSE [st EXCEPT !.nops = @ + 1, !.failed = "write_manifest"]
    ELSE [st EXCEPT !.nops = @ + 1, !.fs.manifest = ManifestFile(ManifestLines(manifest)),
                    !.wlog = Append(@, [op |-> "write", path |-> templates_manifest_path])]

\* faulty variant: a path is put at the front of its bucket
PushFront(st, bucket, path) ==
    [st EXCEPT !.report[bucket] = <<path>> \o @]

Push(st, bucket, path) == [st EXCEPT !.report[bucket] = Append(@, path)]

----------------------------------------------------------------------------
(* refresh_templates.                                                      *)

Options == [force : BOOLEAN, sidecar : BOOLEAN, dry_run : BOOLEAN]

\* current_hash of a destination
CurrentHash(dest) ==
    IF IsSome(read_to_string(dest)) THEN Some(hash_content(Unwrap(read_to_string(dest))))
    ELSE None

\* old_hash of an asset
OldHash(previous_manifest, asset) ==
    IF IsSome(previous_manifest)
    THEN find_hash(Unwrap(previous_manifest), asset.kind, asset.name)
    ELSE None

\* faulty variant: any recorded hash counts as a match, the comparison is dropped
MatchesPreviousAnyRecorded(old_hash, current_hash) ==
    IsSome(old_hash) /\ IsSome(current_hash)

\* faulty variant: the manifest history is never consulted (a two-way comparison)
MatchesPreviousNever(old_hash, current_hash) == FALSE

\* faulty variant: without a recorded hash a readable file counts as untouched
MatchesPreviousWithoutHistory(old_hash, current_hash) ==
    IsSome(current_hash) /\ (IsSome(old_hash) => Unwrap(old_hash) = Unwrap(current_hash))

\* "if hash matches previous shipped default, treat as unmodified"
MatchesPrevious(old_hash, current_hash) ==
    IsSome(old_hash) /\ IsSome(current_hash) /\ Unwrap(old_hash) = Unwrap(current_hash)

\* "already up to date"
UpToDate(current_hash, new_hash) == current_hash = Some(new_hash)

\* the write of asset.content to the destination, guarded by !opts.dry_run
WriteUnlessDry(st, inj, opts, i, asset) ==
    IF ~opts.dry_run THEN fs_write(st, inj, "files", i, asset, asset.content) ELSE st

\* faulty variant: a dry run reports nothing for a missing file
CreateMissingSilentDry(st, inj, opts, i, asset) ==
    IF opts.dry_run THEN st
    ELSE LET s1 == fs_write(st, inj, "files", i, asset, asset.content)
         IN IF Failed(s1) THEN s1 ELSE Push(s1, "created", DestPath(asset))

\* "missing file -> create it"
CreateMissing(st, inj, opts, i, asset) ==
    LET s1 == WriteUnlessDry(st, inj, opts, i, asset)
    IN IF Failed(s1) THEN s1 ELSE Push(s1, "created", DestPath(asset))

\* faulty variant: force overwrites only a destination it could read
ForceOverwriteReadable(st, inj, opts, i, asset, current_hash, new_hash) ==
    LET s1 == IF IsSome(current_hash) /\ ~UpToDate(current_hash, new_hash)
              THEN WriteUnlessDry(st, inj, opts, i, asset)
              ELSE st
    IN IF Failed(s1) THEN s1
       ELSE IF UpToDate(current_hash, new_hash) THEN Push(s1, "unchanged", DestPath(asset))
       ELSE Push(s1, "updated", DestPath(asset))

\* faulty variant: force writes and reports updated whatever the file holds
ForceOverwriteAlways(st, inj, opts, i, asset, current_hash, new_hash) ==
    LET s1 == WriteUnlessDry(st, inj, opts, i, asset)
    IN IF Failed(s1) THEN s1 ELSE Push(s1, "updated", DestPath(asset))

\* "force overwrite regardless of modification state"
ForceOverwrite(st, inj, opts, i, asset, current_hash, new_hash) ==
    LET s1 == IF ~UpToDate(current_hash, new_hash) THEN WriteUnlessDry(st, inj, opts, i, asset)
              ELSE st
    IN IF Failed(s1) THEN s1
       ELSE IF UpToDate(current_hash, new_hash) THEN Push(s1, "unchanged", DestPath(asset))
       ELSE Push(s1, "updated", DestPath(asset))

\* faulty variant: the shipped update is reported but not written
UpgradeUntouchedNoWrite(st, inj, opts, i, asset, current_hash, new_hash) ==
    IF Unwrap(current_hash) # new_hash
    THEN Push(st, "updated", DestPath(asset))
    ELSE Push(st, "unchanged", DestPath(asset))

\* the destination still holds what the previous manifest recorded
UpgradeUntouched(st, inj, opts, i, asset, current_hash, new_hash) ==
    IF Unwrap(current_hash) # new_hash
    THEN LET s1 == WriteUnlessDry(st, inj, opts, i, asset)
         IN IF Failed(s1) THEN s1 ELSE Push(s1, "updated", DestPath(asset))
    ELSE Push(st, "unchanged", DestPath(asset))

\* faulty variant: the sidecar text is written over the destination
ModifiedByUserInPlace(st, inj, opts, i, asset) ==
    IF opts.sidecar
    THEN LET s1 == IF ~opts.dry_run THEN create_dir_all(st, inj, "sdirs", asset.kind) ELSE st
             s2 == IF Failed(s1) \/ opts.dry_run THEN s1
                   ELSE fs_write(s1, inj, "files", i, asset, asset.content)
         IN IF Failed(s2) THEN s2 ELSE Push(s2, "sidecar", templates_sidecar_path(asset))
    ELSE Push(st, "skipped_modified", DestPath(asset))

\* faulty variant: the mirrored asset is listed as skipped too
ModifiedByUserListedTwice(st, inj, opts, i, asset) ==
    IF opts.sidecar
    THEN LET s1 == IF ~opts.dry_run THEN create_dir_all(st, inj, "sdirs", asset.kind) ELSE st
             s2 == IF Failed(s1) \/ opts.dry_run THEN s1
                   ELSE fs_write(s1, inj, "side", i, asset, asset.content)
         IN IF Failed(s2) THEN s2
            ELSE Push(Push(s2, "sidecar", templates_sidecar_path(asset)),
                      "skipped_modified", DestPath(asset))
    ELSE Push(st, "skipped_modified", DestPath(asset))

\* faulty variant: with sidecar the user's file is moved away from its path
ModifiedByUserMovedAside(st, inj, opts, i, asset) ==
    IF opts.sidecar
    THEN LET s1 == IF ~opts.dry_run THEN create_dir_all(st, inj, "sdirs", asset.kind) ELSE st
             s2 == IF Failed(s1) \/ opts.dry_run THEN s1
                   ELSE fs_write(s1, inj, "side", i, asset, asset.content)
             s3 == IF Failed(s2) \/ opts.dry_run THEN s2
                   ELSE [s2 EXCEPT !.fs.files[i] = Absent]
         IN IF Failed(s3) THEN s3 ELSE Push(s3, "sidecar", templates_sidecar_path(asset))
    ELSE Push(st, "skipped_modified", DestPath(asset))

\* "modified by user"
ModifiedByUser(st, inj, opts, i, asset) ==
    IF opts.sidecar
    THEN LET s1 == IF ~opts.dry_run THEN create_dir_all(st, inj, "sdirs", asset.kind) ELSE st
             s2 == IF Failed(s1) \/ opts.dry_run THEN s1
                   ELSE fs_write(s1, inj, "side", i, asset, asset.content)
         IN IF Failed(s2) THEN s2 ELSE Push(s2, "sidecar", templates_sidecar_path(asset))
    ELSE Push(st, "skipped_modified", DestPath(asset))

\* faulty variant: force is looked at before the existence of the destination
RefreshAssetForceFirst(st, inj, opts, previous_manifest, i, asset) ==
    LET dest == st.fs.files[i]
        new_hash == hash_content(asset.content)
        current_hash == CurrentHash(dest)
        old_hash == OldHash(previous_manifest, asset)
    IN IF opts.force
       THEN ForceOverwrite(st, inj, opts, i, asset, current_hash, new_hash)
       ELSE IF ~Exists(dest) THEN CreateMissing(st, inj, opts, i, asset)
       ELSE IF MatchesPrevious(old_hash, current_hash)
       THEN UpgradeUntouched(st, inj, opts, i, asset, current_hash, new_hash)
       ELSE IF UpToDate(current_hash, new_hash) THEN Push(st, "unchanged", DestPath(asset))
       ELSE ModifiedByUser(st, inj, opts, i, asset)

\* faulty variant: a two-way comparison, whatever differs from the catalog is replaced
RefreshAssetTwoWay(st, inj, opts, previous_manifest, i, asset) ==
    LET dest == st.fs.files[i]
        new_hash == hash_content(asset.content)
        current_hash == CurrentHash(dest)
    IN IF ~Exists(dest) THEN CreateMissing(st, inj, opts, i, asset)
       ELSE IF UpToDate(current_hash, new_hash) THEN Push(st, "unchanged", DestPath(asset))
       ELSE ForceOverwrite(st, inj, opts, i, asset, current_hash, new_hash)

\* the body of the loop over the shipped assets
RefreshAsset(st, inj, opts, previous_manifest, i, asset) ==
    LET dest == st.fs.files[i]
        new_hash == hash_content(asset.content)
        current_hash == CurrentHash(dest)
        old_hash == OldHash(previous_manifest, asset)
    IN IF ~Exists(dest) THEN CreateMissing(st, inj, opts, i, asset)
       ELSE IF opts.force
       THEN ForceOverwrite(st, inj, opts, i, asset, current_hash, new_hash)
       ELSE IF MatchesPrevious(old_hash, current_hash)
       THEN UpgradeUntouched(st, inj, opts, i, asset, current_hash, new_hash)
       ELSE IF UpToDate(current_hash, new_hash) THEN Push(st, "unchanged", DestPath(asset))
       ELSE ModifiedByUser(st, inj, opts, i, asset)

\* the loop, from asset i on; an error ends it
RECURSIVE RefreshLoop(_, _, _, _, _, _)
RefreshLoop(st, inj, opts, previous_manifest, shipped_assets, i) ==
    IF Failed(st) \/ i > Len(shipped_assets) THEN st
    ELSE RefreshLoop(RefreshAsset(st, inj, opts, previous_manifest, i, shipped_assets[i]),
                     inj, opts, previous_manifest, shipped_assets, i + 1)

\* the two create_dir_all calls that open both operations
CreateKindDirs(st, inj) ==
    LET s1 == create_dir_all(st, inj, "dirs", "baselines")
    IN IF Failed(s1) THEN s1 ELSE create_dir_all(s1, inj, "dirs", "outcomes")

\* faulty variant: the manifest records the hashes found on disk, not the catalog's
SaveDiskHashes(st, inj, opts, b) ==
    IF ~opts.dry_run
    THEN save_manifest(st, inj,
            [version |-> b,
             entries |-> [i \in AssetIds |->
                [kind |-> ShippedNames[i].kind, name |-> ShippedNames[i].name,
                 hash |-> IF IsSome(CurrentHash(st.fs.files[i]))
                          THEN Unwrap(CurrentHash(st.fs.files[i]))
                          ELSE hash_content(BundledText(i, b))]]])
    ELSE st

\* faulty variant: refresh_templates does not write the manifest
SaveSkipped(st, inj, opts, b) == st

\* the manifest write that closes refresh_templates
SaveUnlessDry(st, inj, opts, b) ==
    IF ~opts.dry_run THEN save_manifest(st, inj, shipped_manifest(b)) ELSE st

\* faulty variant: the manifest is written before the assets are processed
RefreshSavingFirst(disk, inj, opts, b) ==
    LET s1 == CreateKindDirs(Start(disk), inj)
        previous_manifest == load_manifest(disk.manifest)
        s2 == IF Failed(s1) THEN s1 ELSE SaveUnlessDry(s1, inj, opts, b)
    IN IF Failed(s2) THEN s2
       ELSE RefreshLoop(s2, inj, opts, previous_manifest, shipped_templates(b), 1)

\* faulty variant: the manifest is written even when the loop ended on an error
RefreshAlwaysSaving(disk, inj, opts, b) ==
    LET s1 == CreateKindDirs(Start(disk), inj)
        previous_manifest == load_manifest(disk.manifest)
        s2 == IF Failed(s1) THEN s1
              ELSE RefreshLoop(s1, inj, opts, previous_manifest, shipped_templates(b), 1)
    IN SaveUnlessDry(s2, inj, opts, b)

\* refresh_templates(opts) of build b on directory disk
refresh_templates(disk, inj, opts, b) ==
    LET s1 == CreateKindDirs(Start(disk), inj)
        previous_manifest == load_manifest(disk.manifest)
        s2 == IF Failed(s1) THEN s1
              ELSE RefreshLoop(s1, inj, opts, previous_manifest, shipped_templates(b), 1)
    IN IF Failed(s2) THEN s2 ELSE SaveUnlessDry(s2, inj, opts, b)

----------------------------------------------------------------------------
(* ensure_templates_initialized.                                           *)

\* faulty variant: any entry of the directory counts, a sub-directory or a
\* file without the .toml extension too
has_user_templatesAnyEntry(disk, kind) ==
    /\ disk.dirs[kind]
    /\ \/ disk.extra[kind] # {}
       \/ \E i \in AssetIds : ShippedNames[i].kind = kind /\ Exists(disk.files[i])

\* has_user_templates: a regular file with extension toml directly in the directory
has_user_templates(disk, kind) ==
    /\ disk.dirs[kind]
    /\ \/ "custom.toml" \in disk.extra[kind]
       \/ \E i \in AssetIds :
            ShippedNames[i].kind = kind /\ disk.files[i].st \in {"text", "binary"}

\* faulty variant: a path that exists is listed as created without being written
RECURSIVE SeedKindListingExisting(_, _, _, _, _)
SeedKindListingExisting(st, inj, shipped, kind, i) ==
    IF Failed(st) \/ i > Len(shipped) THEN st
    ELSE IF shipped[i].kind # kind
    THEN SeedKindListingExisting(st, inj, shipped, kind, i + 1)
    ELSE IF Exists(st.fs.files[i])
    THEN SeedKindListingExisting(Push(st, "created", DestPath(shipped[i])),
                                 inj, shipped, kind, i + 1)
    ELSE LET s1 == fs_write(st, inj, "files", i, shipped[i], shipped[i].content)
         IN SeedKindListingExisting(
                IF Failed(s1) THEN s1 ELSE Push(s1, "created", DestPath(shipped[i])),
                inj, shipped, kind, i + 1)

\* the inner loop: the shipped assets of one kind, from asset i on
RECURSIVE SeedKind(_, _, _, _, _)
SeedKind(st, inj, shipped, kind, i) ==
    IF Failed(st) \/ i > Len(shipped) THEN st
    ELSE IF shipped[i].kind # kind \/ Exists(st.fs.files[i])
    THEN SeedKind(st, inj, shipped, kind, i + 1)
    ELSE LET s1 == fs_write(st, inj, "files", i, shipped[i], shipped[i].content)
         IN SeedKind(IF Failed(s1) THEN s1 ELSE Push(s1, "created", DestPath(shipped[i])),
                     inj, shipped, kind, i + 1)

\* faulty variant: every kind is seeded, whatever its directory holds
RECURSIVE SeedKindsAlways(_, _, _, _)
SeedKindsAlways(st, inj, shipped, k) ==
    IF Failed(st) \/ k > Len(TemplateKind) THEN st
    ELSE SeedKindsAlways(SeedKind(st, inj, shipped, TemplateKind[k], 1), inj, shipped, k + 1)

\* the outer loop: for kind in [Baselines, Outcomes]
RECURSIVE SeedKinds(_, _, _, _)
SeedKinds(st, inj, shipped, k) ==
    IF Failed(st) \/ k > Len(TemplateKind) THEN st
    ELSE IF has_user_templates(st.fs, TemplateKind[k])
    THEN SeedKinds(st, inj, shipped, k + 1)
    ELSE SeedKinds(SeedKind(st, inj, shipped, TemplateKind[k], 1), inj, shipped, k + 1)

\* faulty variant: the manifest is written whether or not a file was created
SaveAlways(st, inj, b) == save_manifest(st, inj, shipped_manifest(b))

\* the manifest write that closes ensure_templates_initialized
SaveIfCreated(st, inj, b) ==
    IF st.report.created # <<>> THEN save_manifest(st, inj, shipped_manifest(b)) ELSE st

\* ensure_templates_initialized() of build b on directory disk
ensure_templates_initialized(disk, inj, b) ==
    LET s1 == CreateKindDirs(Start(disk), inj)
        s2 == IF Failed(s1) THEN s1 ELSE SeedKinds(s1, inj, shipped_templates(b), 1)
    IN IF Failed(s2) THEN s2 ELSE SaveIfCreated(s2, inj, b)

----------------------------------------------------------------------------
(* The state machine.                                                      *)

DefaultOptions == [force |-> FALSE, sidecar |-> FALSE, dry_run |-> FALSE]
NoCall == [op |-> "none", opts |-> DefaultOptions]
NoRet == [ok |-> FALSE, report |-> EmptyReport, wlog |-> <<>>, failed |-> "none"]

\* the largest number of modifying operations one call attempts: two kind
\* directories, a sidecar directory and a sidecar file per asset, the manifest
MaxOps == 2 + 2 * NAssets + 1
\* the faults a call can run into: none, or the failure of its at-th operation
Injections == {NoFault} \cup [at : 1..MaxOps, torn : BOOLEAN]

Init ==
    /\ build = 1
    /\ fs = EmptyFs
    /\ pc = "idle"
    /\ call = NoCall
    /\ ret = NoRet
    /\ pre = EmptyFs
    /\ events = 0
    /\ running = <<>>

\* a call returns: Ok(report) or Err(message), which carries no report
Returned(op, opts, st) ==
    /\ fs' = st.fs
    /\ pc' = "done"
    /\ call' = [op |-> op, opts |-> opts]
    /\ ret' = [ok |-> ~Failed(st),
               report |-> IF Failed(st) THEN EmptyReport ELSE st.report,
               wlog |-> st.wlog, failed |-> st.failed]
    /\ pre' = fs

\* an injected fault is one that some operation of the call runs into
Injected(inj, st) == inj.at > 0 /\ inj.at <= st.nops

Refresh(opts, inj) ==
    /\ pc = "idle"
    /\ inj.at > 0 => events < MaxEvents
    /\ \E st \in {refresh_templates(fs, inj, opts, build)} :
        /\ inj.at > 0 => Injected(inj, st)
        /\ Returned("refresh", opts, st)
        /\ events' = events + (IF Injected(inj, st) THEN 1 ELSE 0)
    /\ UNCHANGED <<build, running>>

Ensure(inj) ==
    /\ pc = "idle"
    /\ inj.at > 0 => events < MaxEvents
    /\ \E st \in {ensure_templates_initialized(fs, inj, build)} :
        /\ inj.at > 0 => Injected(inj, st)
        /\ Returned("ensure", DefaultOptions, st)
        /\ events' = events + (IF Injected(inj, st) THEN 1 ELSE 0)
    /\ UNCHANGED <<build, running>>

\* the caller has looked at the result
Return ==
    /\ pc = "done"
    /\ pc' = "idle"
    /\ call' = NoCall
    /\ ret' = NoRet
    /\ pre' = EmptyFs
    /\ UNCHANGED <<build, fs, events, running>>

\* the user replaces, removes or creates the file of a bundled template
UserEdit(i, f) ==
    /\ pc = "idle"
    /\ events < MaxEvents
    /\ f # fs.files[i]
    /\ fs' = [fs EXCEPT !.files[i] = f,
                        !.dirs[ShippedNames[i].kind] = @ \/ Exists(f)]
    /\ events' = events + 1
    /\ UNCHANGED <<build, pc, call, ret, pre, running>>

\* the user adds a template of their own, a note or the examples directory
UserAddEntry(kind, e) ==
    /\ pc = "idle"
    /\ events < MaxEvents
    /\ e \notin fs.extra[kind]
    /\ fs' = [fs EXCEPT !.extra[kind] = @ \cup {e}, !.dirs[kind] = TRUE]
    /\ events' = events + 1
    /\ UNCHANGED <<build, pc, call, ret, pre, running>>

\* the manifest file is lost
RemoveManifest ==
    /\ pc = "idle"
    /\ events < MaxEvents
    /\ fs.manifest # NoManifestFile
    /\ fs' = [fs EXCEPT !.manifest = NoManifestFile]
    /\ events' = events + 1
    /\ UNCHANGED <<build, pc, call, ret, pre, running>>

\* a newer release of the tool is installed
Upgrade ==
    /\ pc = "idle"
    /\ events < MaxEvents
    /\ build' = build + 1
    /\ events' = events + 1
    /\ UNCHANGED <<fs, pc, call, ret, pre, running>>

\* the user puts directories where the files of bundled templates would be:
\* at the path of one template, or at the paths of all of them
DirChoices == {{i} : i \in AssetIds} \cup {AssetIds}
UserMakeDir(ids) ==
    /\ pc = "idle"
    /\ events < MaxEvents
    /\ \A i \in ids : fs.files[i] = Absent
    /\ fs' = [fs EXCEPT !.files = [i \in AssetIds |-> IF i \in ids THEN DirEntry ELSE @[i]],
                        !.dirs = [k \in DOMAIN @ |-> TRUE]]
    /\ events' = events + 1
    /\ UNCHANGED <<build, pc, call, ret, pre, running>>

\* what can happen to the text of a manifest file
Damages == {"unreadable", "junk", "unknown_kind", "no_version"}
\* a kind token of some other release, which from_str does not know
FutureKind == "covariates"
IsVersionLine(line) == line.t = "version"
IsOtherLine(line) == line.t # "version"
Damaged(file, damage) ==
    IF damage = "unreadable" THEN BinaryManifestFile
    ELSE IF damage = "junk" THEN ManifestFile(Append(file.lines, JunkLine))
    ELSE IF damage = "unknown_kind"
    THEN ManifestFile(Append(file.lines,
            EntryLine(FutureKind, "default", hash_content(BundledText(1, 1)))))
    ELSE ManifestFile(SelectSeq(file.lines, IsOtherLine))

\* the manifest file is damaged, or gets a line this release does not understand
CorruptManifest(damage) ==
    /\ pc = "idle"
    /\ events < MaxEvents
    /\ fs.manifest.st = "text"
    /\ fs' = [fs EXCEPT !.manifest = Damaged(fs.manifest, damage)]
    /\ events' = events + 1
    /\ UNCHANGED <<build, pc, call, ret, pre, running>>

UserFiles == {Absent, TextFile(UserText), BinaryFile}

Next ==
    \/ \E opts \in Options, inj \in Injections : Refresh(opts, inj)
    \/ \E inj \in Injections : Ensure(inj)
    \/ Return
    \/ \E i \in AssetIds, f \in UserFiles : UserEdit(i, f)
    \/ \E kind \in {"baselines", "outcomes"}, e \in ExtraEntries : UserAddEntry(kind, e)
    \/ RemoveManifest
    \/ Upgrade

Spec == Init /\ [][Next]_vars

\* the installation with a manifest file that gets damaged, and no failing operation
NextManifest ==
    \/ \E opts \in Options : Refresh(opts, NoFault)
    \/ Ensure(NoFault)
    \/ Return
    \/ \E i \in AssetIds, f \in UserFiles : UserEdit(i, f)
    \/ RemoveManifest
    \/ \E damage \in Damages : CorruptManifest(damage)
    \/ Upgrade

SpecManifest == Init /\ [][NextManifest]_vars

\* the installation seen by the bootstrap: what the user keeps in the kind directories
NextBoot ==
    \/ \E inj \in Injections : Ensure(inj)
    \/ \E opts \in Options : Refresh(opts, NoFault)
    \/ Return
    \/ \E i \in AssetIds, f \in UserFiles : UserEdit(i, f)
    \/ \E ids \in DirChoices : UserMakeDir(ids)
    \/ \E kind \in {"baselines", "outcomes"}, e \in ExtraEntries : UserAddEntry(kind, e)
    \/ RemoveManifest
    \/ Upgrade

SpecBoot == Init /\ [][NextBoot]_vars

\* the installation left to the engine: calls that succeed, and upgrades; no
\* user edit, no loss of the manifest
NextUnattended ==
    \/ \E opts \in Options : Refresh(opts, NoFault)
    \/ Ensure(NoFault)
    \/ Return
    \/ Upgrade

SpecUnattended == Init /\ [][NextUnattended]_vars

----------------------------------------------------------------------------
(* Two invocations of refresh_templates at once, one system call at a time. *)

\* faulty variant: a two-way comparison, a file that differs from the catalog
\* is replaced with or without force
ClassifyTwoWay(opts, exists, old_hash, current_hash, new_hash) ==
    IF ~exists THEN "create"
    ELSE IF UpToDate(current_hash, new_hash) THEN "keep"
    ELSE "overwrite"

\* the branch the loop body takes for an asset, from what the invocation has
\* seen: whether the path exists, the recorded hash, the hash of what it read
Classify(opts, exists, old_hash, current_hash, new_hash) ==
    IF ~exists THEN "create"
    ELSE IF opts.force
    THEN IF UpToDate(current_hash, new_hash) THEN "keep" ELSE "overwrite"
    ELSE IF MatchesPrevious(old_hash, current_hash)
    THEN IF UpToDate(current_hash, new_hash) THEN "keep" ELSE "update"
    ELSE IF UpToDate(current_hash, new_hash) THEN "keep"
    ELSE IF opts.sidecar THEN "sidecar"
    ELSE "skip"

\* the options of an invocation that is not a dry run
RealOptions == {opts \in Options : ~opts.dry_run}

\* an invocation: where it is, its options, the manifest it loaded, the
\* asset it is at and the hash of what it read there
Invocation(opts) ==
    [at |-> "dirs", opts |-> opts, previous_manifest |-> None, i |-> 1, current_hash |-> None]

\* fs::write opens the file with truncation and then writes the text: in
\* between, the file is there and holds a part of it
Truncated == TextFile(TornText)
TruncatedManifest == ManifestFile(<<>>)

\* the force and sidecar flags in an order: two invocations are launched with
\* the lower flags first, the other way round being the same pair
Rank(opts) == (IF opts.force THEN 2 ELSE 0) + (IF opts.sidecar THEN 1 ELSE 0)

\* two invocations start on the same directory
Launch(o1, o2) ==
    /\ pc = "idle"
    /\ Rank(o1) <= Rank(o2)
    /\ pc' = "racing"
    /\ pre' = fs
    /\ running' = <<Invocation(o1), Invocation(o2)>>
    /\ UNCHANGED <<build, fs, call, ret, events>>

\* the invocation goes on to the next asset, or to the manifest after the last
NextAsset(p) ==
    IF running[p].i < NAssets
    THEN [running EXCEPT ![p].at = "read", ![p].i = @ + 1, ![p].current_hash = None]
    ELSE [running EXCEPT ![p].at = "save", ![p].current_hash = None]

\* the two create_dir_all calls
MakeDirs(p) ==
    /\ pc = "racing" /\ running[p].at = "dirs"
    /\ fs' = [fs EXCEPT !.dirs = [k \in DOMAIN @ |-> TRUE]]
    /\ running' = [running EXCEPT ![p].at = "load"]
    /\ UNCHANGED <<build, pc, call, ret, pre, events>>

\* load_manifest
LoadManifest(p) ==
    /\ pc = "racing" /\ running[p].at = "load"
    /\ running' = [running EXCEPT ![p].at = "read",
                                  ![p].previous_manifest = load_manifest(fs.manifest)]
    /\ UNCHANGED <<build, fs, pc, call, ret, pre, events>>

\* fs::read_to_string(&dest_path).ok()
ReadDest(p) ==
    /\ pc = "racing" /\ running[p].at = "read"
    /\ running' = [running EXCEPT ![p].at = "act",
                                  ![p].current_hash = CurrentHash(fs.files[running[p].i])]
    /\ UNCHANGED <<build, fs, pc, call, ret, pre, events>>

\* dest_path.exists() and the branch taken: a write to the destination opens
\* it; the sidecar is written; nothing is done
Act(p) ==
    /\ pc = "racing" /\ running[p].at = "act"
    /\ LET i == running[p].i
           asset == shipped_templates(build)[i]
           branch == Classify(running[p].opts, Exists(fs.files[i]),
                              OldHash(running[p].previous_manifest, asset),
                              running[p].current_hash, hash_content(asset.content))
       IN IF branch \in {"create", "overwrite", "update"}
          THEN /\ fs' = [fs EXCEPT !.files[i] = Truncated]
               /\ running' = [running EXCEPT ![p].at = "write"]
          ELSE IF branch = "sidecar"
          THEN /\ fs' = [fs EXCEPT !.sdirs[asset.kind] = TRUE,
                                   !.side[i] = TextFile(asset.content)]
               /\ running' = NextAsset(p)
          ELSE /\ fs' = fs
               /\ running' = NextAsset(p)
    /\ UNCHANGED <<build, pc, call, ret, pre, events>>

\* the text reaches the destination
FinishWrite(p) ==
    /\ pc = "racing" /\ running[p].at = "write"
    /\ fs' = [fs EXCEPT !.files[running[p].i] =
                TextFile(shipped_templates(build)[running[p].i].content)]
    /\ running' = NextAsset(p)
    /\ UNCHANGED <<build, pc, call, ret, pre, events>>

\* save_manifest opens the manifest file
SaveManifest(p) ==
    /\ pc = "racing" /\ running[p].at = "save"
    /\ fs' = [fs EXCEPT !.manifest = TruncatedManifest]
    /\ running' = [running EXCEPT ![p].at = "saving"]
    /\ UNCHANGED <<build, pc, call, ret, pre, events>>

\* the text reaches the manifest file, and the invocation returns
FinishSave(p) ==
    /\ pc = "racing" /\ running[p].at = "saving"
    /\ fs' = [fs EXCEPT !.manifest = ManifestFile(ManifestLines(shipped_manifest(build)))]
    /\ running' = [running EXCEPT ![p].at = "done"]
    /\ UNCHANGED <<build, pc, call, ret, pre, events>>

\* the installation on which two invocations are started together
NextConcurrent ==
    \/ Refresh(DefaultOptions, NoFault)
    \/ Return
    \/ \E i \in AssetIds, f \in {Absent, TextFile(UserText)} : UserEdit(i, f)
    \/ Upgrade
    \/ \E o1, o2 \in RealOptions : Launch(o1, o2)
    \/ \E p \in 1..2 : MakeDirs(p)
    \/ \E p \in 1..2 : LoadManifest(p)
    \/ \E p \in 1..2 : ReadDest(p)
    \/ \E p \in 1..2 : Act(p)
    \/ \E p \in 1..2 : FinishWrite(p)
    \/ \E p \in 1..2 : SaveManifest(p)
    \/ \E p \in 1..2 : FinishSave(p)

SpecConcurrent == Init /\ [][NextConcurrent]_vars

----------------------------------------------------------------------------
(* What the properties below talk about: a call that has returned (pc =    *)
(* "done") with its options in call, its result in ret, the directory      *)
(* before the call in pre and the directory after it in fs.                *)

RefreshReturned == pc = "done" /\ call.op = "refresh"
RefreshSucceeded == RefreshReturned /\ ret.ok

\* the catalog of the running build
Shipped == shipped_templates(build)
NewHash(i) == hash_content(Shipped[i].content)
\* the manifest history the call loaded, and what it recorded for asset i
PreviousManifest == load_manifest(pre.manifest)
RecordedHash(i) == OldHash(PreviousManifest, Shipped[i])
\* the hash of the destination of asset i before the call
HashBefore(i) == CurrentHash(pre.files[i])

InSeq(x, seq) == \E j \in 1..Len(seq) : seq[j] = x
Reported(bucket, path) == InSeq(path, ret.report[bucket])

\* the destination of asset i held text that is neither the recorded one nor the new one
EditedBefore(i) ==
    /\ IsSome(HashBefore(i))
    /\ Unwrap(HashBefore(i)) # NewHash(i)
    /\ IsSome(RecordedHash(i)) => Unwrap(RecordedHash(i)) # Unwrap(HashBefore(i))

\* the destination of asset i held the recorded text, and the catalog has a newer one
LagsBehind(i) ==
    /\ IsSome(HashBefore(i))
    /\ IsSome(RecordedHash(i))
    /\ Unwrap(RecordedHash(i)) = Unwrap(HashBefore(i))
    /\ Unwrap(HashBefore(i)) # NewHash(i)

----------------------------------------------------------------------------
\* C1 (non-destructive default): with force=false and sidecar=false, a
\* destination whose hash differs from the hash the manifest recorded (if any)
\* and from the catalog's hash is the same file after the call as before it,
\* and a call that returns a report lists its path in skipped_modified.
C1_NonDestructiveDefault ==
    (RefreshReturned /\ ~call.opts.force /\ ~call.opts.sidecar) =>
        \A i \in AssetIds :
            EditedBefore(i) =>
                /\ fs.files[i] = pre.files[i]
                /\ ret.ok => Reported("skipped_modified", DestPath(Shipped[i]))

\* an edited file whose manifest entry is older than the catalog went through such a call
C1_Witness ==
    /\ RefreshSucceeded /\ ~call.opts.force /\ ~call.opts.sidecar
    /\ \E i \in AssetIds :
        /\ EditedBefore(i)
        /\ IsSome(RecordedHash(i)) /\ Unwrap(RecordedHash(i)) # NewHash(i)
        /\ Reported("skipped_modified", DestPath(Shipped[i]))

\* C2 (upgrade transparency): without force and without dry_run, a destination
\* whose hash equals the hash recorded in the loaded manifest, while the
\* catalog's hash differs, holds the catalog's text after the call and its
\* path is in updated, whatever sidecar is.
C2_UpgradeTransparency ==
    (RefreshSucceeded /\ ~call.opts.force /\ ~call.opts.dry_run) =>
        \A i \in AssetIds :
            LagsBehind(i) =>
                /\ fs.files[i] = TextFile(Shipped[i].content)
                /\ Reported("updated", DestPath(Shipped[i]))

C2_Witness ==
    /\ RefreshSucceeded /\ ~call.opts.force /\ ~call.opts.dry_run /\ call.opts.sidecar
    /\ \E i \in AssetIds : LagsBehind(i) /\ fs.files[i] # pre.files[i]

\* C3 (force wins): a non-dry-run call with force=true that returns a report
\* leaves every destination holding the catalog's text, whatever was there
\* and whatever the manifest said, and lists a path in unchanged only when
\* the file held the catalog's text before the call.
C3_ForceWins ==
    (RefreshSucceeded /\ call.opts.force /\ ~call.opts.dry_run) =>
        \A i \in AssetIds :
            /\ fs.files[i] = TextFile(Shipped[i].content)
            /\ Reported("unchanged", DestPath(Shipped[i])) =>
                    HashBefore(i) = Some(NewHash(i))

\* a forced call met a file the user had edited and one that cannot be read
C3_Witness ==
    /\ RefreshSucceeded /\ call.opts.force /\ ~call.opts.dry_run
    /\ \E i, j \in AssetIds :
        /\ pre.files[i] = TextFile(UserText)
        /\ pre.files[j] = BinaryFile

\* C4 (sidecar never touches the original): when a call with sidecar=true
\* reports the sidecar path of an asset, the destination of that asset is the
\* same file after the call as before it.
C4_SidecarKeepsOriginal ==
    (RefreshSucceeded /\ call.opts.sidecar) =>
        \A i \in AssetIds :
            Reported("sidecar", templates_sidecar_path(Shipped[i])) =>
                fs.files[i] = pre.files[i]

C4_Witness ==
    /\ RefreshSucceeded /\ call.opts.sidecar /\ ~call.opts.dry_run
    /\ \E i \in AssetIds :
        /\ Reported("sidecar", templates_sidecar_path(Shipped[i]))
        /\ fs.side[i] = TextFile(Shipped[i].content)
        /\ pre.side[i] = Absent

\* C5 (dry-run has zero file-system effect): a call with dry_run=true leaves
\* the whole configuration directory as it was: destinations, sidecar files
\* and directories, kind directories and the manifest.
C5_DryRunNoEffect ==
    (RefreshReturned /\ call.opts.dry_run) => fs = pre

\* C6 (dry-run classifies like a real run): the report a call returns is the
\* report the call with dry_run flipped returns from the same directory.
C6_DryRunSameReport ==
    RefreshSucceeded =>
        \A other \in {refresh_templates(pre, NoFault,
                        [call.opts EXCEPT !.dry_run = ~@], build)} :
            ~Failed(other) /\ other.report = ret.report

\* a real run that created, updated and skipped files
C6_Witness ==
    /\ RefreshSucceeded /\ ~call.opts.dry_run
    /\ ret.report.updated # <<>>
    /\ ret.report.unchanged # <<>>
    /\ ret.report.skipped_modified # <<>>

\* the second of two runs in a row: the same call again on the directory the first left
SecondRun == refresh_templates(fs, NoFault, call.opts, build)

\* C7 as stated (idempotence): the second run has empty created, updated and
\* sidecar buckets and an unchanged bucket holding every catalog asset.
C7_Idempotence ==
    RefreshSucceeded =>
        \A second \in {SecondRun} :
            /\ second.report.created = <<>>
            /\ second.report.updated = <<>>
            /\ second.report.sidecar = <<>>
            /\ Len(second.report.unchanged) = NAssets

\* C7 as amended: after a run with dry_run=false the second run creates and
\* updates nothing, changes nothing on disk, reports again in skipped_modified
\* and sidecar exactly what the first run reported there, and reports every
\* other asset unchanged; after a run with dry_run=true it repeats the report.
C7_IdempotenceAmended ==
    RefreshSucceeded =>
        \A second \in {SecondRun} :
            /\ ~Failed(second)
            /\ call.opts.dry_run => second.report = ret.report
            /\ ~call.opts.dry_run =>
                /\ second.report.created = <<>>
                /\ second.report.updated = <<>>
                /\ second.report.skipped_modified = ret.report.skipped_modified
                /\ second.report.sidecar = ret.report.sidecar
                /\ Len(second.report.unchanged) =
                        NAssets - Len(ret.report.skipped_modified) - Len(ret.report.sidecar)
                /\ second.fs = fs

\* a first run that updated one file and skipped another
C7_Witness ==
    /\ RefreshSucceeded /\ ~call.opts.dry_run
    /\ ret.report.updated # <<>>
    /\ ret.report.skipped_modified # <<>>
    /\ Len(SecondRun.report.unchanged) = NAssets - Len(ret.report.skipped_modified)

\* the entry lines of the manifest file
EntryLines == {j \in 1..Len(fs.manifest.lines) : fs.manifest.lines[j].t = "entry"}
EntriesFor(kind, name) ==
    {j \in EntryLines : fs.manifest.lines[j].kind = kind /\ fs.manifest.lines[j].name = name}

\* C8 (manifest advance): after a successful non-dry-run call the manifest
\* file holds one entry per catalog asset and no other entry, in catalog
\* order, each with the hash of the asset's text in the running catalog,
\* whichever branch the asset took.
C8_ManifestAdvance ==
    (RefreshSucceeded /\ ~call.opts.dry_run) =>
        /\ fs.manifest.st = "text"
        /\ Cardinality(EntryLines) = NAssets
        /\ \A i \in AssetIds :
            /\ Cardinality(EntriesFor(Shipped[i].kind, Shipped[i].name)) = 1
            /\ \A j \in EntriesFor(Shipped[i].kind, Shipped[i].name) :
                fs.manifest.lines[j].hash = NewHash(i)
        /\ \A i1, i2 \in AssetIds :
            i1 < i2 =>
                \A j1 \in EntriesFor(Shipped[i1].kind, Shipped[i1].name),
                   j2 \in EntriesFor(Shipped[i2].kind, Shipped[i2].name) : j1 < j2

\* the call updated one file and skipped another, and the manifest was rewritten
C8_Witness ==
    /\ RefreshSucceeded /\ ~call.opts.dry_run
    /\ ret.report.updated # <<>>
    /\ ret.report.skipped_modified # <<>>
    /\ fs.manifest # pre.manifest

\* C9 (the manifest write is last): in the order of a call's modifications,
\* nothing follows the write of the manifest, so every destination and
\* sidecar write comes before it.
C9_ManifestWrittenLast ==
    RefreshReturned =>
        \A j \in 1..Len(ret.wlog) :
            ret.wlog[j].path = templates_manifest_path => j = Len(ret.wlog)

\* a call wrote a destination, a sidecar file and then the manifest
C9_Witness ==
    /\ RefreshSucceeded
    /\ Len(ret.wlog) >= 3
    /\ ret.wlog[Len(ret.wlog)].path = templates_manifest_path
    /\ \E j, k \in 1..Len(ret.wlog) :
        /\ ret.wlog[j].op = "write" /\ ret.wlog[j].path.root = "" /\ j < Len(ret.wlog)
        /\ ret.wlog[k].op = "write" /\ ret.wlog[k].path.root = "templates.new"

\* C10 (a failed write never advances the manifest): when the write of a
\* destination or of a sidecar file fails in refresh_templates or in
\* ensure_templates_initialized, the call returns an error and the manifest
\* file is what it was before the call.
C10_FailedWriteKeepsManifest ==
    (pc = "done" /\ ret.failed \in {"write_dest", "write_sidecar"}) =>
        /\ ~ret.ok
        /\ fs.manifest = pre.manifest

\* a refresh after an upgrade updated one file, then failed on the next one
C10_Witness ==
    /\ RefreshReturned /\ ret.failed = "write_dest"
    /\ \E j \in 1..Len(ret.wlog) : ret.wlog[j].op = "write"
    /\ \E i \in AssetIds : LagsBehind(i) /\ fs.files[i] = TextFile(Shipped[i].content)
    /\ \E i \in AssetIds : LagsBehind(i) /\ fs.files[i] # TextFile(Shipped[i].content)
    /\ pre.manifest.st = "text"

----------------------------------------------------------------------------
(* The manifest file: damaged, rejected, of another version.               *)

\* the manifest file gave the call no history: absent, unreadable or rejected
NoHistory == ~IsSome(PreviousManifest)

\* C11: with no usable manifest history (manifest absent, unreadable or
\* rejected by load_manifest) and force=false, refresh_templates never writes
\* to a destination file that exists: the file is as it was, no write to its
\* path was attempted, and it is reported unchanged (its hash is new_hash) or
\* in skipped_modified or in sidecar.
C11_NoHistoryNoOverwrite ==
    (RefreshReturned /\ ~call.opts.force /\ NoHistory) =>
        \A i \in AssetIds :
            Exists(pre.files[i]) =>
                /\ fs.files[i] = pre.files[i]
                /\ ~InSeq([op |-> "write", path |-> DestPath(Shipped[i])], ret.wlog)
                /\ ret.ok =>
                    \/ /\ Reported("unchanged", DestPath(Shipped[i]))
                       /\ HashBefore(i) = Some(NewHash(i))
                    \/ /\ Reported("skipped_modified", DestPath(Shipped[i]))
                       /\ ~call.opts.sidecar
                    \/ /\ Reported("sidecar", templates_sidecar_path(Shipped[i]))
                       /\ call.opts.sidecar

\* a manifest file that load_manifest rejects, a file that differs from the
\* bundled text and is skipped, and another one that is already current
C11_Witness ==
    /\ RefreshSucceeded /\ ~call.opts.force /\ ~call.opts.dry_run
    /\ pre.manifest.st = "text" /\ NoHistory
    /\ \E i, j \in AssetIds :
        /\ pre.files[i].st = "text" /\ HashBefore(i) # Some(NewHash(i))
        /\ Reported("skipped_modified", DestPath(Shipped[i]))
        /\ fs.files[i] = pre.files[i]
        /\ HashBefore(j) = Some(NewHash(j))
        /\ Reported("unchanged", DestPath(Shipped[j]))

\* a manifest file that is there and readable but not a manifest: a line with
\* fewer than three fields, or no version line
Malformed(file) ==
    /\ file.st = "text"
    /\ \/ \E j \in 1..Len(file.lines) : file.lines[j].t = "junk"
       \/ \A j \in 1..Len(file.lines) :
            file.lines[j].t = "version" => file.lines[j].ver = EmptyVersion
Unusable(file) == file.st \in {"absent", "binary"} \/ Malformed(file)

\* the call wrote the manifest file
ManifestWritten == InSeq([op |-> "write", path |-> templates_manifest_path], ret.wlog)

\* the same call on the same directory without a manifest file
WithoutManifest ==
    refresh_templates([pre EXCEPT !.manifest = NoManifestFile], NoFault, call.opts, build)

\* C12 (manifest load fails soft): for a manifest that is missing, unreadable
\* or malformed, load_manifest returns None and the call does not fail for it;
\* refresh_templates returns the same report and performs the same writes as
\* with no manifest file at all.
C12_LoadFailsSoft ==
    (RefreshReturned /\ Unusable(pre.manifest)) =>
        /\ load_manifest(pre.manifest) = None
        /\ ret.failed = "none"
        /\ \A other \in {WithoutManifest} :
            /\ ret.report = other.report
            /\ ret.wlog = other.wlog
            /\ [fs EXCEPT !.manifest = NoManifestFile]
                  = [other.fs EXCEPT !.manifest = NoManifestFile]
            /\ fs.manifest = IF ManifestWritten THEN other.fs.manifest ELSE pre.manifest

\* a manifest with a malformed line is on disk next to a file that its
\* entries would have shown to be untouched: the file is skipped
C12_Witness ==
    /\ RefreshSucceeded /\ ~call.opts.force /\ ~call.opts.sidecar /\ ~call.opts.dry_run
    /\ Malformed(pre.manifest)
    /\ \E j \in 1..Len(pre.manifest.lines) : pre.manifest.lines[j].t = "entry"
    /\ \E i \in AssetIds :
        /\ pre.files[i] = TextFile(BundledText(i, 1)) /\ NewHash(i) # Unwrap(HashBefore(i))
        /\ Reported("skipped_modified", DestPath(Shipped[i]))

\* the lines of a manifest file that are kind:name:hash with a kind of this release
IsKnownEntry(line) == line.t = "entry" /\ IsSome(from_str(line.kind))
\* the file names a version, and has a line of another release or a line
\* that does not have three fields
HasForeignLine(file) ==
    /\ file.st = "text"
    /\ \E j \in 1..Len(file.lines) :
        file.lines[j].t = "version" /\ file.lines[j].ver # EmptyVersion
    /\ \E j \in 1..Len(file.lines) :
        file.lines[j].t = "junk" \/ (file.lines[j].t = "entry" /\ ~IsKnownEntry(file.lines[j]))

\* C13 (forward-compatible parsing): when a manifest line has an unrecognized
\* kind token or does not have three colon-separated fields, load_manifest
\* skips only that line and still returns every other well-formed entry, so
\* find_hash still returns the recorded hash of each of them.
C13_ForeignLineSkipped ==
    HasForeignLine(fs.manifest) =>
        /\ IsSome(load_manifest(fs.manifest))
        /\ \A j \in 1..Len(fs.manifest.lines) :
            IsKnownEntry(fs.manifest.lines[j]) =>
                IsSome(find_hash(Unwrap(load_manifest(fs.manifest)),
                                 Unwrap(from_str(fs.manifest.lines[j].kind)),
                                 fs.manifest.lines[j].name))

----------------------------------------------------------------------------
\* C14 (missing takes priority): a catalog asset whose destination file does
\* not exist is reported in created, and in no other bucket, by a call that
\* returns a report, with force set or not and whatever the manifest records;
\* when dry_run=false the file exists afterwards with the catalog content.
C14_MissingIsCreated ==
    RefreshSucceeded =>
        \A i \in AssetIds :
            ~Exists(pre.files[i]) =>
                /\ Reported("created", DestPath(Shipped[i]))
                /\ \A bucket \in {"updated", "unchanged", "skipped_modified"} :
                    ~Reported(bucket, DestPath(Shipped[i]))
                /\ ~Reported("sidecar", templates_sidecar_path(Shipped[i]))
                /\ ~call.opts.dry_run => fs.files[i] = TextFile(Shipped[i].content)

\* a file the manifest has a hash for was deleted, and force is set
C14_Witness ==
    /\ RefreshSucceeded /\ call.opts.force /\ ~call.opts.dry_run
    /\ \E i \in AssetIds :
        /\ ~Exists(pre.files[i])
        /\ IsSome(RecordedHash(i))
        /\ Reported("created", DestPath(Shipped[i]))
        /\ fs.files[i] = TextFile(Shipped[i].content)

----------------------------------------------------------------------------
(* The bootstrap.                                                          *)

EnsureReturned == pc = "done" /\ call.op = "ensure"
EnsureSucceeded == EnsureReturned /\ ret.ok
Kinds == {TemplateKind[k] : k \in 1..Len(TemplateKind)}
AssetsOf(kind) == {i \in AssetIds : ShippedNames[i].kind = kind}
\* the kind directory holds a template file: a regular file named *.toml
HoldsTemplateFile(disk, kind) ==
    \/ "custom.toml" \in disk.extra[kind]
    \/ \E i \in AssetsOf(kind) : disk.files[i].st \in {"text", "binary"}

\* C15 (bootstrap skip rule): for each kind whose directory already holds at
\* least one template file (a regular .toml file), ensure_templates_initialized
\* creates, modifies and deletes no file in that directory, even when other
\* catalog assets of that kind are missing; none of them is listed as created.
C15_BootstrapSkipsPopulatedKind ==
    EnsureReturned =>
        \A kind \in Kinds :
            HoldsTemplateFile(pre, kind) =>
                /\ fs.extra[kind] = pre.extra[kind]
                /\ \A i \in AssetsOf(kind) :
                    /\ fs.files[i] = pre.files[i]
                    /\ ~InSeq([op |-> "write", path |-> DestPath(Shipped[i])], ret.wlog)
                    /\ ~Reported("created", DestPath(Shipped[i]))

\* one kind holds a template file and lacks a catalog asset, which stays
\* missing, while the other kind is seeded by the same call
C15_Witness ==
    /\ EnsureSucceeded
    /\ \E kind, other \in Kinds :
        /\ HoldsTemplateFile(pre, kind)
        /\ \E i \in AssetsOf(kind) : ~Exists(pre.files[i]) /\ ~Exists(fs.files[i])
        /\ ~HoldsTemplateFile(pre, other)
        /\ \E i \in AssetsOf(other) : Reported("created", DestPath(Shipped[i]))

\* C16 (bootstrap seeding), as stated: for each kind whose directory holds no
\* template file (sub-directories and files without the .toml extension are
\* not counted), ensure_templates_initialized writes every catalog asset of
\* that kind: each file exists afterwards with the catalog content and its
\* path is in the returned created list.
C16_BootstrapSeedsEveryAsset ==
    EnsureSucceeded =>
        \A kind \in Kinds :
            ~HoldsTemplateFile(pre, kind) =>
                \A i \in AssetsOf(kind) :
                    /\ fs.files[i] = TextFile(Shipped[i].content)
                    /\ Reported("created", DestPath(Shipped[i]))

\* C16 amended: for each kind whose directory holds no template file,
\* ensure_templates_initialized writes every catalog asset of that kind whose
\* path does not exist: it exists afterwards with the catalog content and is
\* in the created list; a path that exists (a directory named like the file)
\* is left as it is and is not in the created list.
C16_BootstrapSeedsMissingAssets ==
    EnsureSucceeded =>
        \A kind \in Kinds :
            ~HoldsTemplateFile(pre, kind) =>
                \A i \in AssetsOf(kind) :
                    IF Exists(pre.files[i])
                    THEN /\ fs.files[i] = pre.files[i]
                         /\ ~Reported("created", DestPath(Shipped[i]))
                    ELSE /\ fs.files[i] = TextFile(Shipped[i].content)
                         /\ Reported("created", DestPath(Shipped[i]))

\* a kind directory with an entry that is not a template file and with a
\* directory at the path of one asset: the other assets of the kind are written
C16_Witness ==
    /\ EnsureSucceeded
    /\ \E kind \in Kinds :
        /\ ~HoldsTemplateFile(pre, kind)
        /\ pre.extra[kind] # {}
        /\ \E i, j \in AssetsOf(kind) :
            /\ pre.files[i] = DirEntry /\ fs.files[i] = DirEntry
            /\ ~Exists(pre.files[j])
            /\ fs.files[j] = TextFile(Shipped[j].content)
            /\ Reported("created", DestPath(Shipped[j]))

\* C17 (bootstrap manifest): a call of ensure_templates_initialized that
\* returns its list wrote the manifest if and only if it created at least one
\* file; the manifest then holds the version and one entry per asset of the
\* whole catalog, both kinds, a kind that was skipped included; when nothing
\* was created the manifest file is as it was.
C17_BootstrapManifest ==
    EnsureSucceeded =>
        /\ ManifestWritten <=> ret.report.created # <<>>
        /\ ret.report.created # <<>> =>
            fs.manifest = ManifestFile(ManifestLines(shipped_manifest(build)))
        /\ ret.report.created = <<>> => fs.manifest = pre.manifest

\* one kind was skipped, the other seeded, and the manifest written has the
\* entries of the skipped kind too
C17_Witness ==
    /\ EnsureSucceeded /\ ManifestWritten
    /\ \E kind \in Kinds :
        /\ HoldsTemplateFile(pre, kind)
        /\ \A i \in AssetsOf(kind) : ~Reported("created", DestPath(Shipped[i]))
        /\ \E i \in AssetsOf(kind) :
            /\ ~Exists(fs.files[i])
            /\ \E j \in 1..Len(fs.manifest.lines) :
                fs.manifest.lines[j] = EntryLine(kind, Shipped[i].name, NewHash(i))

----------------------------------------------------------------------------
(* The manifest file as written.                                           *)

\* the manifest the running build records
NewManifest == shipped_manifest(build)

\* C18 (manifest round trip): the manifest file a call has just written with
\* save_manifest is read back by load_manifest as a manifest of the same
\* version with the same entries in the same order.
C18_ManifestRoundTrip ==
    (pc = "done" /\ ret.ok /\ ManifestWritten) =>
        /\ IsSome(load_manifest(fs.manifest))
        /\ Unwrap(load_manifest(fs.manifest)).version = NewManifest.version
        /\ Unwrap(load_manifest(fs.manifest)).entries = NewManifest.entries

\* the manifest of the second build was written over the one of the first,
\* with an entry per asset
C18_Witness ==
    /\ pc = "done" /\ ret.ok /\ ManifestWritten
    /\ build = 2
    /\ pre.manifest.st = "text"
    /\ Len(NewManifest.entries) = NAssets
    /\ Len(fs.manifest.lines) = NAssets + 1

\* C19 (atomic manifest replacement): whatever happens in a call, a failure
\* in the middle of the final write included, the manifest file on disk is
\* the complete previous manifest or the complete new one, never a part of one.
C19_ManifestReplacedAtomically ==
    pc = "done" =>
        \/ fs.manifest = pre.manifest
        \/ fs.manifest = ManifestFile(ManifestLines(NewManifest))

----------------------------------------------------------------------------
(* A manifest written by another release.                                  *)

\* a manifest file without fault whose version is not the running build's
OfOtherVersion(file) ==
    /\ file.st = "text"
    /\ ~Malformed(file)
    /\ \A j \in 1..Len(file.lines) : file.lines[j].t = "entry" => IsKnownEntry(file.lines[j])
    /\ \E j \in 1..Len(file.lines) :
        file.lines[j].t = "version" /\ file.lines[j].ver # NewManifest.version

\* the same file with the version of the running build in its version line
Reversioned(file) ==
    ManifestFile([j \in 1..Len(file.lines) |->
        IF file.lines[j].t = "version" THEN VersionLine(NewManifest.version)
        ELSE file.lines[j]])

\* the same call on the same directory with the manifest under the running version
WithCurrentVersion ==
    refresh_templates([pre EXCEPT !.manifest = Reversioned(pre.manifest)],
                      NoFault, call.opts, build)

\* C20, as stated: a manifest whose version differs from the running build's
\* is treated as no manifest: refresh_templates returns the same report and
\* performs the same writes as with no manifest file.
C20_OtherVersionAsNoManifest ==
    (RefreshReturned /\ OfOtherVersion(pre.manifest)) =>
        \A other \in {WithoutManifest} :
            /\ ret.report = other.report
            /\ ret.wlog = other.wlog
            /\ [fs EXCEPT !.manifest = NoManifestFile]
                  = [other.fs EXCEPT !.manifest = NoManifestFile]

\* C20 amended: a manifest whose version differs from the running build's is
\* loaded, and its entries are used as the recorded hashes; the version is
\* not compared: refresh_templates returns the same report and performs the
\* same writes as with the same entries under the running build's version.
C20_VersionNotCompared ==
    (RefreshReturned /\ OfOtherVersion(pre.manifest)) =>
        /\ IsSome(load_manifest(pre.manifest))
        /\ Unwrap(load_manifest(pre.manifest)).entries
             = Unwrap(load_manifest(Reversioned(pre.manifest))).entries
        /\ \A other \in {WithCurrentVersion} :
            /\ ret.report = other.report
            /\ ret.wlog = other.wlog
            /\ [fs EXCEPT !.manifest = NoManifestFile]
                  = [other.fs EXCEPT !.manifest = NoManifestFile]
            /\ fs.manifest = IF ManifestWritten THEN other.fs.manifest ELSE pre.manifest

\* after an upgrade the manifest of the former release is on disk, and a file
\* it shows to be untouched is brought to the new bundled text
C20_Witness ==
    /\ RefreshSucceeded /\ ~call.opts.force /\ ~call.opts.dry_run
    /\ OfOtherVersion(pre.manifest)
    /\ \E i \in AssetIds :
        /\ LagsBehind(i)
        /\ Reported("updated", DestPath(Shipped[i]))
        /\ fs.files[i] = TextFile(Shipped[i].content)

----------------------------------------------------------------------------
(* The classification of one destination.                                  *)

\* the destination of asset i held the text the manifest records for it
UntouchedSinceManifest(i) ==
    /\ IsSome(HashBefore(i))
    /\ IsSome(RecordedHash(i))
    /\ Unwrap(RecordedHash(i)) = Unwrap(HashBefore(i))

\* the destination of asset i held the text of the catalog
AlreadyCurrent(i) == Exists(pre.files[i]) /\ HashBefore(i) = Some(NewHash(i))

\* C21 (sidecar delivery): for a destination that exists and neither holds
\* the text the manifest records nor the text of the catalog, a call without
\* dry_run, with force=false and sidecar=true, that returns a report has
\* written the catalog text to templates.new/{kind}/{name}.toml, in a
\* directory that exists, lists that path in sidecar, and lists the asset in
\* no other bucket.
C21_SidecarDelivery ==
    (RefreshSucceeded /\ ~call.opts.force /\ call.opts.sidecar /\ ~call.opts.dry_run) =>
        \A i \in AssetIds :
            (Exists(pre.files[i]) /\ ~UntouchedSinceManifest(i) /\ ~AlreadyCurrent(i)) =>
                /\ fs.side[i] = TextFile(Shipped[i].content)
                /\ fs.sdirs[Shipped[i].kind]
                /\ Reported("sidecar", templates_sidecar_path(Shipped[i]))
                /\ \A bucket \in {"created", "updated", "unchanged", "skipped_modified"} :
                    ~Reported(bucket, DestPath(Shipped[i]))

\* the sidecar directory did not exist, and the manifest had an older hash
\* for the file the user changed
C21_Witness ==
    /\ RefreshSucceeded /\ ~call.opts.force /\ call.opts.sidecar /\ ~call.opts.dry_run
    /\ \E i \in AssetIds :
        /\ pre.files[i] = TextFile(UserText)
        /\ IsSome(RecordedHash(i))
        /\ ~pre.sdirs[Shipped[i].kind] /\ fs.sdirs[Shipped[i].kind]
        /\ fs.side[i] = TextFile(Shipped[i].content)
        /\ Reported("sidecar", templates_sidecar_path(Shipped[i]))

\* C22 (already current): a destination that exists and holds the text of
\* the catalog is not written, no sidecar is written for it, and a call that
\* returns a report lists it in unchanged: with any force, sidecar and
\* dry_run, and whether the manifest is absent, records this hash or another.
C22_AlreadyCurrent ==
    RefreshReturned =>
        \A i \in AssetIds :
            AlreadyCurrent(i) =>
                /\ fs.files[i] = pre.files[i]
                /\ fs.side[i] = pre.side[i]
                /\ ~InSeq([op |-> "write", path |-> DestPath(Shipped[i])], ret.wlog)
                /\ ~InSeq([op |-> "write", path |-> templates_sidecar_path(Shipped[i])], ret.wlog)
                /\ ret.ok => Reported("unchanged", DestPath(Shipped[i]))

\* force is set and the manifest records an older hash for a file that
\* already holds the text of the catalog
C22_Witness ==
    /\ RefreshSucceeded /\ call.opts.force /\ ~call.opts.dry_run
    /\ \E i \in AssetIds :
        /\ AlreadyCurrent(i)
        /\ IsSome(RecordedHash(i)) /\ Unwrap(RecordedHash(i)) # NewHash(i)
        /\ Reported("unchanged", DestPath(Shipped[i]))

----------------------------------------------------------------------------
(* The bootstrap against refresh_templates.                                *)

\* no kind directory holds a template file, and there is no manifest file
EmptyStart ==
    /\ \A kind \in Kinds : ~HoldsTemplateFile(pre, kind)
    /\ pre.manifest = NoManifestFile

\* refresh_templates with the default options on the directory the call found
RefreshInstead == refresh_templates(pre, NoFault, DefaultOptions, build)

\* C23, as stated: from a directory whose kind directories hold no template
\* file and that has no manifest, ensure_templates_initialized and
\* refresh_templates with force=false, sidecar=false, dry_run=false leave the
\* same files with the same contents and the same manifest, and the list the
\* bootstrap returns is the created bucket of the refresh report.
C23_BootstrapEqualsRefresh ==
    (EnsureSucceeded /\ EmptyStart) =>
        \A other \in {RefreshInstead} :
            /\ ~Failed(other)
            /\ fs = other.fs
            /\ ret.report.created = other.report.created

\* C23 amended: the two calls leave the same files with the same contents and
\* return the same created list; they leave the same manifest when that list
\* is not empty; when it is empty (every destination path is taken by a
\* directory) the bootstrap leaves no manifest while refresh_templates
\* writes one.
C23_BootstrapEqualsRefreshFiles ==
    (EnsureSucceeded /\ EmptyStart) =>
        \A other \in {RefreshInstead} :
            /\ ~Failed(other)
            /\ [fs EXCEPT !.manifest = NoManifestFile]
                  = [other.fs EXCEPT !.manifest = NoManifestFile]
            /\ ret.report.created = other.report.created
            /\ other.fs.manifest = ManifestFile(ManifestLines(NewManifest))
            /\ fs.manifest = IF ret.report.created # <<>> THEN other.fs.manifest
                             ELSE NoManifestFile

\* the bootstrap of a directory that holds a file which is not a template and
\* a directory at the path of one asset: the other assets are created
C23_Witness ==
    /\ EnsureSucceeded /\ EmptyStart
    /\ \E kind \in Kinds : pre.extra[kind] # {}
    /\ \E i \in AssetIds : pre.files[i] = DirEntry
    /\ Len(ret.report.created) = NAssets - 1
    /\ fs.manifest = ManifestFile(ManifestLines(NewManifest))

----------------------------------------------------------------------------
(* The report.                                                             *)

Buckets == {"created", "updated", "unchanged", "skipped_modified", "sidecar"}

\* the path under which asset i is listed in a bucket
ListedPath(bucket, i) ==
    IF bucket = "sidecar" THEN templates_sidecar_path(Shipped[i]) ELSE DestPath(Shipped[i])

\* the positions of asset i in a bucket of the report
Positions(bucket, i) ==
    {j \in 1..Len(ret.report[bucket]) : ret.report[bucket][j] = ListedPath(bucket, i)}

RECURSIVE SumLen(_)
SumLen(buckets) ==
    IF buckets = {} THEN 0
    ELSE LET b == CHOOSE b \in buckets : TRUE
         IN Len(ret.report[b]) + SumLen(buckets \ {b})

\* C24 (report partition): in the report of a refresh_templates call that
\* succeeds, every catalog asset is listed once in exactly one of the five
\* buckets, the lengths of the buckets add up to the size of the catalog, and
\* each bucket lists its paths in the order of the catalog.
C24_ReportPartition ==
    RefreshSucceeded =>
        /\ \A i \in AssetIds :
            \E bucket \in Buckets :
                /\ Cardinality(Positions(bucket, i)) = 1
                /\ \A b2 \in Buckets \ {bucket} : Positions(b2, i) = {}
        /\ SumLen(Buckets) = NAssets
        /\ \A bucket \in Buckets :
            \A j, k \in 1..Len(ret.report[bucket]) :
                j < k =>
                    \E i1, i2 \in AssetIds :
                        /\ i1 < i2
                        /\ ret.report[bucket][j] = ListedPath(bucket, i1)
                        /\ ret.report[bucket][k] = ListedPath(bucket, i2)

\* a report with three buckets in use, one of them with two paths
C24_Witness ==
    /\ RefreshSucceeded
    /\ Cardinality({b \in Buckets : ret.report[b] # <<>>}) >= 3
    /\ \E b \in Buckets : Len(ret.report[b]) >= 2

----------------------------------------------------------------------------
(* Histories.                                                              *)

\* what a destination holds when its content was never shipped by any release
NeverShipped == {TextFile(UserText), BinaryFile}

\* a call of the engine without force: the bootstrap, or refresh_templates
\* with force=false
UnforcedCall == pc = "done" /\ (call.op = "ensure" \/ ~call.opts.force)

\* C25 (user edits survive any history): after any sequence of bootstrap
\* calls, refresh_templates calls with force=false (any sidecar and dry_run),
\* upgrades of the catalog, and loss or damage of the manifest, a destination
\* whose content no release has shipped is left by every such call as the
\* call found it.
C25_UserEditsSurvive ==
    UnforcedCall =>
        \A i \in AssetIds :
            pre.files[i] \in NeverShipped => fs.files[i] = pre.files[i]

\* a user file went through a call that found the manifest file damaged, and
\* the call mirrored the catalog text to the sidecar
C25_Witness ==
    /\ UnforcedCall /\ call.op = "refresh" /\ ~call.opts.dry_run /\ call.opts.sidecar
    /\ pre.manifest.st # "absent" /\ NoHistory
    /\ \E i \in AssetIds :
        /\ pre.files[i] = TextFile(UserText)
        /\ fs.files[i] = pre.files[i]
        /\ fs.side[i] = TextFile(Shipped[i].content)

\* a call in the scope of C26: the bootstrap, or refresh_templates with
\* force=false and dry_run=false, that succeeded
UnattendedCall ==
    /\ pc = "done" /\ ret.ok
    /\ call.op = "ensure" \/ (~call.opts.force /\ ~call.opts.dry_run)

\* C26 (untouched files follow upgrades): when only the engine writes the
\* directory (calls that succeed, upgrades of the catalog in between, no user
\* edit, no loss of the manifest), a destination that exists is never listed
\* in skipped_modified or sidecar by the bootstrap or by a refresh_templates
\* call with force=false and dry_run=false, and after such a refresh it holds
\* the text of the running build's catalog.
C26_UntouchedFollowsUpgrades ==
    UnattendedCall =>
        \A i \in AssetIds :
            Exists(pre.files[i]) =>
                /\ ~Reported("skipped_modified", DestPath(Shipped[i]))
                /\ ~Reported("sidecar", templates_sidecar_path(Shipped[i]))
                /\ call.op = "refresh" => fs.files[i] = TextFile(Shipped[i].content)

\* the refresh after two upgrades: the manifest is the one of the first
\* release, and a file of that release is brought to the text of the third
C26_Witness ==
    /\ UnattendedCall /\ call.op = "refresh"
    /\ build = 3
    /\ IsSome(PreviousManifest) /\ Unwrap(PreviousManifest).version = 1
    /\ \E i \in AssetIds :
        /\ pre.files[i] = TextFile(BundledText(i, 1))
        /\ fs.files[i] = TextFile(BundledText(i, 3))
        /\ fs.files[i] # pre.files[i]
        /\ Reported("updated", DestPath(Shipped[i]))

----------------------------------------------------------------------------
(* After a failure.                                                        *)

\* a refresh_templates call with force=false and dry_run=false that failed on
\* a write after it had brought a lagging file to the catalog text; the
\* manifest was not reached
AbortedAfterUpdate ==
    /\ RefreshReturned /\ ~ret.ok
    /\ ~call.opts.force /\ ~call.opts.dry_run
    /\ ret.failed \in {"write_dest", "write_sidecar"}
    /\ fs.manifest = pre.manifest
    /\ \E i \in AssetIds : LagsBehind(i) /\ fs.files[i] = TextFile(Shipped[i].content)

\* the same call once more on what the failed call left
RunAgain == refresh_templates(fs, NoFault, call.opts, build)
\* the same call on what the failed call found, without failure
RunWithoutFailure == refresh_templates(pre, NoFault, call.opts, build)

\* C27 (recovery after an aborted run): when a refresh_templates call with
\* force=false and dry_run=false fails on a write after updating some assets,
\* the same call run again without fault and without user edit in between
\* ends with the destination contents and the manifest of a run in which no
\* failure occurred, and overwrites no file the user edited.
C27_RecoveryAfterAbort ==
    AbortedAfterUpdate =>
        \A again \in {RunAgain}, clean \in {RunWithoutFailure} :
            /\ ~Failed(again)
            /\ again.fs.files = clean.fs.files
            /\ again.fs.manifest = clean.fs.manifest
            /\ \A i \in AssetIds :
                pre.files[i] \in NeverShipped => again.fs.files[i] = pre.files[i]

----------------------------------------------------------------------------
(* A destination that cannot be read.                                      *)

\* the path exists, and read_to_string fails on it: a file that is not
\* UTF-8 text, or a directory
Unreadable(f) == f.st \in {"binary", "dir"}

\* C28: a destination that exists but cannot be read as text is never taken
\* as missing: a call that returns a report does not list it in created; with
\* force=false the path is left as it is and listed in skipped_modified, or
\* in sidecar when sidecar=true; with force=true it is listed in updated, and
\* overwritten with the catalog text unless dry_run.
C28_UnreadableIsNotMissing ==
    RefreshReturned =>
        \A i \in AssetIds :
            Unreadable(pre.files[i]) =>
                /\ ~call.opts.force => fs.files[i] = pre.files[i]
                /\ ret.ok =>
                    /\ ~Reported("created", DestPath(Shipped[i]))
                    /\ IF call.opts.force
                       THEN /\ Reported("updated", DestPath(Shipped[i]))
                            /\ ~call.opts.dry_run => fs.files[i] = TextFile(Shipped[i].content)
                       ELSE IF call.opts.sidecar
                       THEN Reported("sidecar", templates_sidecar_path(Shipped[i]))
                       ELSE Reported("skipped_modified", DestPath(Shipped[i]))

\* a file that is not text was overwritten by a call with force
C28_Witness ==
    /\ RefreshSucceeded /\ call.opts.force /\ ~call.opts.dry_run
    /\ \E i \in AssetIds :
        /\ pre.files[i] = BinaryFile
        /\ fs.files[i] = TextFile(Shipped[i].content)
        /\ Reported("updated", DestPath(Shipped[i]))

----------------------------------------------------------------------------
(* The footprint of a call.                                                *)

\* {kind}/{name}.toml and templates.new/{kind}/{name}.toml of the catalog
\* assets, and templates.manifest
Footprint ==
    {[root |-> r, kind |-> ShippedNames[i].kind, name |-> ShippedNames[i].name] :
        r \in {"", "templates.new"}, i \in AssetIds}
    \cup {[root |-> "", kind |-> "", name |-> "templates.manifest"]}

\* C30 (write footprint): a call of refresh_templates or of
\* ensure_templates_initialized, failing or not, deletes no file, writes no
\* path but the destination and sidecar paths of the catalog assets and
\* templates.manifest, and leaves the entries of the kind directories that
\* are not catalog names as they are, with force=true too.
C30_WriteFootprint ==
    pc = "done" =>
        /\ \A j \in 1..Len(ret.wlog) :
            ret.wlog[j].op = "write" => ret.wlog[j].path \in Footprint
        /\ \A i \in AssetIds :
            /\ pre.files[i].st # "absent" => fs.files[i].st # "absent"
            /\ pre.side[i].st # "absent" => fs.side[i].st # "absent"
        /\ pre.manifest.st # "absent" => fs.manifest.st # "absent"
        /\ fs.extra = pre.extra
        /\ \A kind \in Kinds :
            /\ pre.dirs[kind] => fs.dirs[kind]
            /\ pre.sdirs[kind] => fs.sdirs[kind]

\* a call with force that overwrote a file of the user in a directory that
\* also holds a template of the user's own
C30_Witness ==
    /\ RefreshSucceeded /\ call.opts.force /\ ~call.opts.dry_run
    /\ \E i \in AssetIds :
        /\ pre.files[i] = TextFile(UserText)
        /\ fs.files[i] = TextFile(Shipped[i].content)
        /\ "custom.toml" \in pre.extra[Shipped[i].kind]
        /\ "custom.toml" \in fs.extra[Shipped[i].kind]

----------------------------------------------------------------------------
(* Two invocations at once.                                                *)

BothReturned == pc = "racing" /\ running[1].at = "done" /\ running[2].at = "done"

\* the directory after the invocation with options first has run alone and
\* the one with options second has run alone after it
OneAfterTheOther(first, second) ==
    refresh_templates(refresh_templates(pre, NoFault, first, build).fs,
                      NoFault, second, build).fs

\* C29 (concurrent invocations converge): when two refresh_templates
\* invocations of the same build, neither a dry run, run at once on the same
\* directory with their reads and writes interleaved in any way and no user
\* edit, then once both have returned the destination files and the manifest
\* are those of one of the two sequential executions; and at no moment of the
\* run is a file whose content no release shipped overwritten, unless one of
\* the invocations has force=true.
C29_ConcurrentConverge ==
    pc = "racing" =>
        /\ (~running[1].opts.force /\ ~running[2].opts.force) =>
            \A i \in AssetIds :
                pre.files[i] = TextFile(UserText) => fs.files[i] = pre.files[i]
        /\ BothReturned =>
            \E order \in {<<1, 2>>, <<2, 1>>} :
                \A seq \in {OneAfterTheOther(running[order[1]].opts, running[order[2]].opts)} :
                    /\ fs.files = seq.files
                    /\ fs.manifest = seq.manifest

\* an invocation with force and one with sidecar have both returned: the
\* second read the user's file before the first replaced it, and wrote the
\* sidecar that it would not have written had it run after the first
C29_Witness ==
    /\ BothReturned
    /\ ~running[1].opts.force /\ running[1].opts.sidecar
    /\ running[2].opts.force
    /\ \E i \in AssetIds :
        /\ pre.files[i] = TextFile(UserText)
        /\ pre.side[i] = Absent
        /\ fs.files[i] = TextFile(Shipped[i].content)
        /\ fs.side[i] = TextFile(Shipped[i].content)
        /\ OneAfterTheOther(running[2].opts, running[1].opts).side[i] = Absent

====
